---------------------------- MODULE Spec2Model ----------------------------
(***************************************************************************)
(* Model of control_points.py: solve (the Thomas solver with the cyclic    *)
(* rank-1 correction) and spline_through (right-hand-side assembly,        *)
(* control-point derivation and emission of the segments).                 *)
(*                                                                         *)
(* Arithmetic is exact.  A number is held as <<num, den, e>> and stands    *)
(* for (num/den) * 28.45274^e: the conversion factor of line 103 is kept   *)
(* as a separate power so that numerators stay inside TLC's integers.      *)
(* Python lists are sequences read with Python's indices (0-based, a       *)
(* negative index counts from the end).                                    *)
(***************************************************************************)
EXTENDS Integers, Sequences, FiniteSets, TLC

\* ------------------------------------------------------------------ bounds
MaxN == 3
MaxPts == 4

RhsVals == {-1, 0, 2}

\* -------------------------------------------------------- exact arithmetic
ScaleNum == 1422637
ScaleDen == 50000

Abs(k) == IF k < 0 THEN -k ELSE k

RECURSIVE GCD(_, _)
GCD(a, b) == IF b = 0 THEN a ELSE GCD(b, a % b)

QNorm(num, den, e) ==
    IF num = 0 THEN <<0, 1, 0>>
    ELSE LET s == IF den < 0 THEN -1 ELSE 1
             g == GCD(Abs(num), Abs(den))
         IN  <<(s * num) \div g, (s * den) \div g, e>>

QInt(k) == <<k, 1, 0>>
QIsZero(a) == a[1] = 0
QNeg(a) == <<-a[1], a[2], a[3]>>

RECURSIVE QExpand(_)
QExpand(a) ==
    IF a[3] = 0 THEN a
    ELSE IF a[3] > 0 THEN QExpand(QNorm(a[1] * ScaleNum, a[2] * ScaleDen, a[3] - 1))
    ELSE QExpand(QNorm(a[1] * ScaleDen, a[2] * ScaleNum, a[3] + 1))

QAdd(a, b) ==
    IF QIsZero(a) THEN b
    ELSE IF QIsZero(b) THEN a
    ELSE IF a[3] = b[3] THEN QNorm(a[1] * b[2] + b[1] * a[2], a[2] * b[2], a[3])
    ELSE LET ea == QExpand(a)
             eb == QExpand(b)
         IN  QNorm(ea[1] * eb[2] + eb[1] * ea[2], ea[2] * eb[2], 0)

QSub(a, b) == QAdd(a, QNeg(b))
QMul(a, b) == QNorm(a[1] * b[1], a[2] * b[2], a[3] + b[3])
QDiv(a, b) == QNorm(a[1] * b[2], a[2] * b[1], a[3] - b[3])
QPos(a) == a[1] > 0
QLeq(a, b) == QSub(b, a)[1] >= 0

\* --------------------------------------------------------------- Python lists
PyIndex(s, k) == IF k < 0 THEN k + Len(s) ELSE k
InRange(s, k) == PyIndex(s, k) \in 0..(Len(s) - 1)
At(s, k) == s[PyIndex(s, k) + 1]
Put(s, k, v) == [s EXCEPT ![PyIndex(s, k) + 1] = v]
Repeat(v, m) == [k \in 1..m |-> v]

UNSET == QInt(-1000000000)
SCALE == <<1, 1, 1>>

VARIABLES entry, points, cyclic, pc, err, K, n, rx, ry, x, y, z, bb, i, d,
          Px, Py, Qx, Qy, origin, path, handles, sweeps, calls, run,
          prevP, prevQ, prevBB

vars == <<entry, points, cyclic, pc, err, K, n, rx, ry, x, y, z, bb, i, d,
          Px, Py, Qx, Qy, origin, path, handles, sweeps, calls, run,
          prevP, prevQ, prevBB>>

solverVars == <<x, y, z, bb, d, sweeps, calls>>
builderVars == <<K, n, Px, Py, Qx, Qy, origin, path, handles>>
callVars == <<entry, points, cyclic, run, prevP, prevQ, prevBB>>

RECURSIVE SeqsUpTo(_, _)
SeqsUpTo(S, m) ==
    IF m = 0 THEN {<<>>}
    ELSE LET shorter == SeqsUpTo(S, m - 1)
         IN  shorter \cup {Append(s, v) : s \in {t \in shorter : Len(t) = m - 1}, v \in S}

Fail(e) == /\ pc' = "failed"
           /\ err' = e


\* ------------------------------------------------------ solve: coefficients
\* lines 51-57: the first pivot, b[0] = 3 if cyclic else 2
FirstPivot(cyc) == IF cyc THEN QInt(3) ELSE QInt(2)

\* variant: a[n-1] = 1 in both modes
an_1_always_one(cyc) == QInt(1)

\* variant: b[n-1] = 1 in non-cyclic mode
bn_1_wrong(cyc) == IF cyc THEN QInt(3) ELSE QInt(1)

\* lines 68-75: the last row's sub-diagonal and diagonal coefficients
an_1(cyc) == IF cyc THEN QInt(1) ELSE QInt(2)

\* lines 68-75, continued
bn_1(cyc) == IF cyc THEN QInt(3) ELSE QInt(7)

\* line 63: bb[i] = 4.0 - 1.0/bb[i-1]
InteriorPivot(prev) == QSub(QInt(4), QDiv(QInt(1), prev))

\* lines 64-66: v[i] = raw - v[i-1]/bb[i-1]
Eliminate(raw, vprev, pivot) == QSub(raw, QDiv(vprev, pivot))

\* line 66: the raw right-hand side of z at an interior row
ZRawInterior == QInt(0)

\* variant: z's last row starts from 0 like the interior rows
ZRawLastZero == QInt(0)

\* line 79: the raw right-hand side of z at the last row
ZRawLast == QInt(1)

\* variant: the last pivot multiplies where the code divides
LastPivotTimes(cyc, prev) == QSub(bn_1(cyc), QMul(an_1(cyc), prev))

\* line 76: bb[n-1] = bn_1 - an_1/bb[n-2]
LastPivot(cyc, prev) == QSub(bn_1(cyc), QDiv(an_1(cyc), prev))

\* variant: the last row eliminated without its coefficient a[n-1]
EliminateLastNoCoeff(cyc, raw, vprev, pivot) == QSub(raw, QDiv(vprev, pivot))

\* lines 77-78: v[n-1] = raw - an_1*v[n-2]/bb[n-2]
EliminateLast(cyc, raw, vprev, pivot) ==
    QSub(raw, QDiv(QMul(an_1(cyc), vprev), pivot))

\* lines 87-89: v[i] = (v[i] - v[i+1])/bb[i]
BackStep(v, vnext, pivot) == QDiv(QSub(v, vnext), pivot)

\* variant: the denominator without its leading 1
CorrectionDenominatorNoOne(zz) == QAdd(At(zz, 0), At(zz, Len(zz) - 1))

\* line 93: d = 1 + z[0] + z[n-1]
CorrectionDenominator(zz) ==
    QAdd(QAdd(QInt(1), At(zz, 0)), At(zz, Len(zz) - 1))

\* lines 94-95: f = (v[0] + v[n-1])/d
CorrectionFactor(v, dd) == QDiv(QAdd(At(v, 0), At(v, Len(v) - 1)), dd)

\* lines 97-99: v[i] -= f*z[i] for every i
Corrected(v, f, zz) == [k \in 1..Len(v) |-> QSub(v[k], QMul(f, zz[k]))]

\* ----------------------------------------------- spline_through: formulas
\* line 103: K = every point times 28.45274
Scaled(pts) ==
    [k \in 1..Len(pts) |->
        <<QMul(QInt(pts[k][1]), SCALE), QMul(QInt(pts[k][2]), SCALE)>>]

\* variant: one segment fewer than knots in both modes
SegmentCountOpenOnly(pts, cyc) == Len(pts) - 1

\* lines 104-107: n = len(points), minus one if not cyclic
SegmentCount(pts, cyc) == IF cyc THEN Len(pts) ELSE Len(pts) - 1

\* lines 109-112: [0] * n (the empty list when n <= 0)
Zeros(m) == Repeat(QInt(0), IF m < 0 THEN 0 ELSE m)

\* lines 115-118: r[i] = 4*K[i][c] + 2*K[(i+1) % n][c]
RhsCyclic(Kc, m, c) ==
    [k \in 1..m |->
        LET ii == k - 1
            j == (ii + 1) % m
        IN  QAdd(QMul(QInt(4), At(At(Kc, ii), c)),
                 QMul(QInt(2), At(At(Kc, j), c)))]

\* lines 120-126: first row, interior rows, then the last row (assigned last)
RhsOpen(Kc, m, c) ==
    [k \in 1..m |->
        LET ii == k - 1
        IN  IF ii = m - 1
            THEN QAdd(QMul(QInt(8), At(At(Kc, m - 1), c)), At(At(Kc, m), c))
            ELSE IF ii = 0
            THEN QAdd(At(At(Kc, 0), c), QMul(QInt(2), At(At(Kc, 1), c)))
            ELSE QAdd(QMul(QInt(4), At(At(Kc, ii), c)),
                      QMul(QInt(2), At(At(Kc, ii + 1), c)))]

\* lines 131-132, 134-135: 2*k - p, the reflection of p through the knot k
Reflect(k, p) == QSub(QMul(QInt(2), k), p)

\* lines 137-138: (k + p)/2
Midpoint(k, p) == QDiv(QAdd(k, p), QInt(2))

\* variant: the wrapped control point takes K[0][0] for both axes
QLastCyclicAxisMixup(Kc, px, py) ==
    <<Reflect(At(At(Kc, 0), 0), At(px, 0)), Reflect(At(At(Kc, 0), 0), At(py, 0))>>

\* lines 134-135: the last segment's second control point in cyclic mode
QLastCyclic(Kc, px, py) ==
    <<Reflect(At(At(Kc, 0), 0), At(px, 0)), Reflect(At(At(Kc, 0), 1), At(py, 0))>>

\* lines 137-138: the last segment's second control point in non-cyclic mode
QLastOpen(Kc, m, px, py) ==
    <<Midpoint(At(At(Kc, m), 0), At(px, m - 1)),
      Midpoint(At(At(Kc, m), 1), At(py, m - 1))>>

\* lines 130-138: the second control points, as a list of pairs
DerivedQ(Kc, m, cyc, px, py) ==
    [k \in 1..m |->
        LET ii == k - 1
        IN  IF ii = m - 1
            THEN IF cyc THEN QLastCyclic(Kc, px, py) ELSE QLastOpen(Kc, m, px, py)
            ELSE <<Reflect(At(At(Kc, ii + 1), 0), At(px, ii + 1)),
                   Reflect(At(At(Kc, ii + 1), 1), At(py, ii + 1))>>]

\* variant: the cyclic end knot without the step to the next knot
EndIndexNoStep(ii, m, cyc) == IF cyc THEN ii % m ELSE ii + 1

\* lines 142-145: the index of the end knot of segment ii
EndIndex(ii, m, cyc) == IF cyc THEN (ii + 1) % m ELSE ii + 1

\* the test rotation of a point by 90 degrees: (x, y) -> (-y, x)
Rot90(p) == <<-p[2], p[1]>>
QRot90(p) == <<QNeg(p[2]), p[1]>>

\* ------------------------------------------------------------------- Init
Points == {<<0, 0>>, <<1, 0>>, <<1, 1>>, <<0, 1>>, <<2, 1>>}

Init ==
    /\ \/ /\ entry = "solve"
          /\ rx \in SeqsUpTo({QInt(v) : v \in RhsVals}, MaxN)
          /\ ry \in SeqsUpTo({QInt(v) : v \in RhsVals}, MaxN)
          /\ points = <<>>
          /\ pc = "solve"
       \/ /\ entry = "spline_through"
          /\ points \in SeqsUpTo(Points, MaxPts)
          /\ rx = <<>>
          /\ ry = <<>>
          /\ pc = "spline_through"
    /\ cyclic \in BOOLEAN
    /\ err = "none"
    /\ K = <<>>
    /\ n = 0
    /\ x = <<>>
    /\ y = <<>>
    /\ z = <<>>
    /\ bb = <<>>
    /\ i = 0
    /\ d = QInt(0)
    /\ Px = <<>>
    /\ Py = <<>>
    /\ Qx = <<>>
    /\ Qy = <<>>
    /\ origin = <<>>
    /\ path = <<>>
    /\ handles = <<>>
    /\ sweeps = 0
    /\ calls = 0
    /\ run = 1
    /\ prevP = <<>>
    /\ prevQ = <<>>
    /\ prevBB = <<>>

\* ---------------------------------------------------------- spline_through
\* lines 103-126: scale the knots, size the vectors, assemble rx and ry
Assemble ==
    /\ pc = "spline_through"
    /\ LET Kc == Scaled(points)
           m == SegmentCount(points, cyclic)
       IN  /\ K' = Kc
           /\ n' = m
           /\ Qx' = Zeros(m)
           /\ Qy' = Zeros(m)
           /\ IF cyclic
              THEN /\ rx' = RhsCyclic(Kc, m, 0)
                   /\ ry' = RhsCyclic(Kc, m, 1)
                   /\ pc' = "solve"
                   /\ err' = err
              ELSE IF ~InRange(Kc, 0) \/ ~InRange(Kc, 1)
              THEN /\ rx' = Zeros(m)
                   /\ ry' = Zeros(m)
                   /\ Fail("IndexError")
              ELSE /\ rx' = RhsOpen(Kc, m, 0)
                   /\ ry' = RhsOpen(Kc, m, 1)
                   /\ pc' = "solve"
                   /\ err' = err
    /\ UNCHANGED <<callVars, solverVars, i, Px, Py, origin, path, handles>>

\* ------------------------------------------------------------------- solve
\* lines 43-61: the assertion, the working vectors, row 0
SolveEnter ==
    /\ pc = "solve"
    /\ calls' = calls + 1
    /\ sweeps' = 0
    /\ d' = QInt(0)
    /\ IF Len(rx) # Len(ry)
       THEN /\ Fail("AssertionError")
            /\ UNCHANGED <<x, y, z, bb, i>>
       ELSE LET m == Len(rx)
                fresh == Repeat(UNSET, m)
            IN  IF ~InRange(fresh, 0)
                THEN /\ Fail("IndexError")
                     /\ x' = fresh
                     /\ y' = fresh
                     /\ z' = fresh
                     /\ bb' = fresh
                     /\ i' = i
                ELSE /\ bb' = Put(fresh, 0, FirstPivot(cyclic))
                     /\ x' = Put(fresh, 0, At(rx, 0))
                     /\ y' = Put(fresh, 0, At(ry, 0))
                     /\ z' = Put(fresh, 0, QInt(1))
                     /\ i' = 1
                     /\ pc' = "forward"
                     /\ err' = err
    /\ UNCHANGED <<callVars, builderVars, rx, ry>>

\* lines 62-67: one iteration of the forward sweep, or its exit
ForwardSweep ==
    /\ pc = "forward"
    /\ IF i < Len(rx) - 1
       THEN IF QIsZero(At(bb, i - 1))
            THEN /\ Fail("ZeroDivisionError")
                 /\ UNCHANGED <<x, y, z, bb, i, sweeps>>
            ELSE /\ bb' = Put(bb, i, InteriorPivot(At(bb, i - 1)))
                 /\ x' = Put(x, i, Eliminate(At(rx, i), At(x, i - 1), At(bb, i - 1)))
                 /\ y' = Put(y, i, Eliminate(At(ry, i), At(y, i - 1), At(bb, i - 1)))
                 /\ z' = Put(z, i, Eliminate(ZRawInterior, At(z, i - 1), At(bb, i - 1)))
                 /\ i' = i + 1
                 /\ sweeps' = sweeps + 1
                 /\ UNCHANGED <<pc, err>>
       ELSE /\ pc' = "last_row"
            /\ UNCHANGED <<err, x, y, z, bb, i, sweeps>>
    /\ UNCHANGED <<callVars, builderVars, rx, ry, d, calls>>

\* lines 68-80: the last row; the assignments run in order, so for n = 1
\* the index n-2 = -1 reads the pivot that line 76 has just stored
LastRow ==
    /\ pc = "last_row"
    /\ LET m == Len(rx)
       IN  IF QIsZero(At(bb, m - 2))
           THEN /\ Fail("ZeroDivisionError")
                /\ UNCHANGED <<x, y, z, bb>>
           ELSE LET bb1 == Put(bb, m - 1, LastPivot(cyclic, At(bb, m - 2)))
                IN  IF QIsZero(At(bb1, m - 2))
                    THEN /\ Fail("ZeroDivisionError")
                         /\ bb' = bb1
                         /\ UNCHANGED <<x, y, z>>
                    ELSE /\ bb' = bb1
                         /\ x' = Put(x, m - 1, EliminateLast(cyclic, At(rx, m - 1),
                                                  At(x, m - 2), At(bb1, m - 2)))
                         /\ y' = Put(y, m - 1, EliminateLast(cyclic, At(ry, m - 1),
                                                  At(y, m - 2), At(bb1, m - 2)))
                         /\ z' = Put(z, m - 1, Eliminate(ZRawLast, At(z, m - 2),
                                                  At(bb1, m - 2)))
                         /\ pc' = "divide"
                         /\ err' = err
    /\ UNCHANGED <<callVars, builderVars, rx, ry, i, d, sweeps, calls>>

\* lines 82-85: the last row divided by its pivot
LastDivide ==
    /\ pc = "divide"
    /\ LET m == Len(rx)
       IN  IF QIsZero(At(bb, m - 1))
           THEN /\ Fail("ZeroDivisionError")
                /\ UNCHANGED <<x, y, z, i>>
           ELSE /\ x' = Put(x, m - 1, QDiv(At(x, m - 1), At(bb, m - 1)))
                /\ y' = Put(y, m - 1, QDiv(At(y, m - 1), At(bb, m - 1)))
                /\ z' = Put(z, m - 1, QDiv(At(z, m - 1), At(bb, m - 1)))
                /\ i' = m - 2
                /\ pc' = "back"
                /\ err' = err
    /\ UNCHANGED <<callVars, builderVars, rx, ry, bb, d, sweeps, calls>>

\* lines 86-90: one iteration of the back-substitution, or its exit
BackSubstitute ==
    /\ pc = "back"
    /\ IF i > -1
       THEN IF QIsZero(At(bb, i))
            THEN /\ Fail("ZeroDivisionError")
                 /\ UNCHANGED <<x, y, z, i>>
            ELSE /\ x' = Put(x, i, BackStep(At(x, i), At(x, i + 1), At(bb, i)))
                 /\ y' = Put(y, i, BackStep(At(y, i), At(y, i + 1), At(bb, i)))
                 /\ z' = Put(z, i, BackStep(At(z, i), At(z, i + 1), At(bb, i)))
                 /\ i' = i - 1
                 /\ UNCHANGED <<pc, err>>
       ELSE /\ pc' = "correct"
            /\ UNCHANGED <<err, x, y, z, i>>
    /\ UNCHANGED <<callVars, builderVars, rx, ry, bb, d, sweeps, calls>>

\* lines 92-100: the cyclic correction and the return to the caller
CorrectAndReturn ==
    /\ pc = "correct"
    /\ LET dd == CorrectionDenominator(z)
           back == IF entry = "solve" THEN "done" ELSE "derive"
       IN  IF ~cyclic
           THEN /\ pc' = back
                /\ UNCHANGED <<err, x, y, d>>
           ELSE IF QIsZero(dd)
           THEN /\ Fail("ZeroDivisionError")
                /\ d' = dd
                /\ UNCHANGED <<x, y>>
           ELSE /\ d' = dd
                /\ x' = Corrected(x, CorrectionFactor(x, dd), z)
                /\ y' = Corrected(y, CorrectionFactor(y, dd), z)
                /\ pc' = back
                /\ err' = err
    /\ UNCHANGED <<callVars, builderVars, rx, ry, z, bb, i, sweeps, calls>>

\* ------------------------------------------- spline_through, after the solve
\* lines 128-138: Px, Py from the solver, then the second control points
Derive ==
    /\ pc = "derive"
    /\ Px' = x
    /\ Py' = y
    /\ LET q == DerivedQ(K, n, cyclic, x, y)
       IN  /\ Qx' = [k \in 1..n |-> q[k][1]]
           /\ Qy' = [k \in 1..n |-> q[k][2]]
    /\ pc' = "draw"
    /\ UNCHANGED <<callVars, solverVars, err, K, n, rx, ry, i, origin, path, handles>>

\* line 140: the path starts at K[0]
DrawStart ==
    /\ pc = "draw"
    /\ IF ~InRange(K, 0)
       THEN /\ Fail("IndexError")
            /\ UNCHANGED <<origin, i>>
       ELSE /\ origin' = At(K, 0)
            /\ i' = 0
            /\ pc' = "curve"
            /\ err' = err
    /\ UNCHANGED <<callVars, solverVars, K, n, rx, ry, Px, Py, Qx, Qy, path, handles>>

\* lines 141-150: one curve segment appended to the path, or the path closed
EmitCurve ==
    /\ pc = "curve"
    /\ IF i < n
       THEN /\ path' = Append(path,
                 [c1 |-> <<At(Px, i), At(Py, i)>>,
                  c2 |-> <<At(Qx, i), At(Qy, i)>>,
                  end |-> At(K, EndIndex(i, n, cyclic))])
            /\ i' = i + 1
            /\ pc' = pc
       ELSE /\ path' = path
            /\ i' = 0
            /\ pc' = "handles"
    /\ UNCHANGED <<callVars, solverVars, err, K, n, rx, ry, Px, Py, Qx, Qy,
                   origin, handles>>

\* lines 151-159: the control points and handle lines of one segment
EmitHandles ==
    /\ pc = "handles"
    /\ IF i < n
       THEN /\ handles' = Append(handles,
                 [start |-> At(K, i),
                  c1 |-> <<At(Px, i), At(Py, i)>>,
                  c2 |-> <<At(Qx, i), At(Qy, i)>>,
                  end |-> At(K, EndIndex(i, n, cyclic))])
            /\ i' = i + 1
            /\ pc' = pc
       ELSE /\ handles' = handles
            /\ i' = i
            /\ pc' = "done"
    /\ UNCHANGED <<callVars, solverVars, err, K, n, rx, ry, Px, Py, Qx, Qy,
                   origin, path>>

\* lines 169-172: the caller runs spline_through again; here on the knots
\* rotated by 90 degrees, keeping the first run's results for comparison
CallAgain ==
    /\ pc = "done"
    /\ entry = "spline_through"
    /\ run = 1
    /\ run' = 2
    /\ points' = [k \in 1..Len(points) |-> Rot90(points[k])]
    /\ prevP' = [k \in 1..Len(Px) |-> <<Px[k], Py[k]>>]
    /\ prevQ' = [k \in 1..Len(Qx) |-> <<Qx[k], Qy[k]>>]
    /\ prevBB' = bb
    /\ pc' = "spline_through"
    /\ path' = <<>>
    /\ handles' = <<>>
    /\ UNCHANGED <<entry, cyclic, err, K, n, rx, ry, x, y, z, bb, i, d,
                   Px, Py, Qx, Qy, origin, sweeps, calls>>

Next ==
    \/ Assemble
    \/ SolveEnter
    \/ ForwardSweep
    \/ LastRow
    \/ LastDivide
    \/ BackSubstitute
    \/ CorrectAndReturn
    \/ Derive
    \/ DrawStart
    \/ EmitCurve
    \/ EmitHandles
    \/ CallAgain

Spec == Init /\ [][Next]_vars

\* ----------------------------------------------------------- properties
\* solve has returned to its caller and its arguments and results are in place
SolveReturned == pc \in {"done", "derive", "draw", "curve", "handles"}

\* spline_through has returned
BuilderDone == entry = "spline_through" /\ pc = "done"

Rows == 0..(Len(rx) - 1)

\* row ii of the cyclic system applied to v against the right-hand side r
CyclicRow(v, r, ii) ==
    LET m == Len(r)
    IN  QAdd(QAdd(QMul(QInt(4), At(v, ii)), At(v, (ii + m - 1) % m)),
             At(v, (ii + 1) % m)) = At(r, ii)

\* row ii of the non-cyclic system applied to v against the right-hand side r
OpenRow(v, r, ii) ==
    LET m == Len(r)
    IN  IF ii = 0
        THEN QAdd(QMul(QInt(2), At(v, 0)), At(v, 1)) = At(r, 0)
        ELSE IF ii = m - 1
        THEN QAdd(QMul(QInt(2), At(v, m - 2)), QMul(QInt(7), At(v, m - 1))) = At(r, m - 1)
        ELSE QAdd(QAdd(At(v, ii - 1), QMul(QInt(4), At(v, ii))), At(v, ii + 1)) = At(r, ii)

\* C1: for n >= 2 the vectors solve returns in cyclic mode satisfy every row
\* of the cyclic system, 4*v[i] + v[(i-1) mod n] + v[(i+1) mod n] = r[i],
\* for x against rx and for y against ry.
C1_CyclicSolution ==
    (SolveReturned /\ cyclic /\ Len(rx) >= 2)
        => \A ii \in Rows : CyclicRow(x, rx, ii) /\ CyclicRow(y, ry, ii)

C1_Witness ==
    /\ entry = "solve" /\ pc = "done" /\ cyclic /\ Len(rx) = 3
    /\ rx = <<QInt(2), QInt(-1), QInt(0)>>
    /\ ~QIsZero(At(x, 0))

\* C2: for n >= 2 the vectors solve returns in non-cyclic mode satisfy the
\* tridiagonal system with first row 2,1, interior rows 1,4,1 and last row
\* 2,7, for x against rx and for y against ry.
C2_OpenSolution ==
    (SolveReturned /\ ~cyclic /\ Len(rx) >= 2)
        => \A ii \in Rows : OpenRow(x, rx, ii) /\ OpenRow(y, ry, ii)

C2_Witness ==
    /\ entry = "solve" /\ pc = "done" /\ ~cyclic /\ Len(rx) = 3
    /\ ry = <<QInt(0), QInt(2), QInt(-1)>>
    /\ ~QIsZero(At(y, 2))

\* C3: for at least two knots spline_through emits n-1 segments in
\* non-cyclic mode and n in cyclic mode; rx, ry, Px, Py, Qx, Qy all have that
\* length and entry i of each belongs to emitted segment i.
C3_SegmentCount ==
    (BuilderDone /\ Len(points) >= 2)
        => LET m == IF cyclic THEN Len(points) ELSE Len(points) - 1
           IN  /\ Len(path) = m /\ Len(handles) = m
               /\ Len(rx) = m /\ Len(ry) = m
               /\ Len(Px) = m /\ Len(Py) = m
               /\ Len(Qx) = m /\ Len(Qy) = m
               /\ \A k \in 1..m :
                    /\ handles[k].start = K[k]
                    /\ handles[k].c1 = <<Px[k], Py[k]>>
                    /\ handles[k].c2 = <<Qx[k], Qy[k]>>
                    /\ path[k].c1 = handles[k].c1
                    /\ path[k].c2 = handles[k].c2
                    /\ path[k].end = handles[k].end

C3_Witness ==
    /\ BuilderDone /\ run = 1 /\ cyclic /\ Len(points) = 3 /\ Len(path) = 3
    /\ points[1] # points[2]

\* C4: in emission order each segment starts at the knot where the previous
\* one ended, the path starts at segment 0's start knot, and in cyclic mode
\* the last segment ends at segment 0's start knot.
C4_Continuity ==
    entry = "spline_through"
        => /\ \A k \in 2..Len(handles) : handles[k].start = handles[k - 1].end
           /\ \A k \in 2..Len(handles) : handles[k].start = path[k - 1].end
           /\ Len(handles) >= 1 => handles[1].start = origin
           /\ (pc = "done" /\ cyclic /\ Len(handles) >= 1)
                => /\ handles[Len(handles)].end = handles[1].start
                   /\ path[Len(path)].end = origin

C4_Witness ==
    /\ BuilderDone /\ run = 1 /\ cyclic /\ Len(handles) = 4
    /\ points = <<<<0, 0>>, <<1, 0>>, <<1, 1>>, <<2, 1>>>>

\* C5: with fewer than two knots spline_through never invokes the solver,
\* never emits a segment and never returns.
C5_RejectsShortInput ==
    (entry = "spline_through" /\ Len(points) < 2)
        => /\ calls = 0
           /\ path = <<>>
           /\ handles = <<>>
           /\ pc # "done"

\* C6 as stated: solve never returns for right-hand sides of length below 2.
C6_Original ==
    (entry = "solve" /\ Len(rx) = Len(ry) /\ Len(rx) < 2) => pc # "done"

\* C6 as amended: solve on empty right-hand sides stops with an index error
\* and returns nothing; on right-hand sides of length 1 it does not fail and
\* returns vectors of length 1.
C6_Amended ==
    /\ (entry = "solve" /\ Len(rx) = 0 /\ Len(ry) = 0)
         => /\ pc \in {"solve", "failed"}
            /\ pc = "failed" => err = "IndexError"
    /\ (entry = "solve" /\ Len(rx) = 1 /\ Len(ry) = 1)
         => /\ pc # "failed"
            /\ pc = "done" => (Len(x) = 1 /\ Len(y) = 1)

C6_Witness ==
    /\ entry = "solve" /\ Len(rx) = 0 /\ Len(ry) = 0
    /\ pc = "failed" /\ calls = 1

\* p lies on the straight segment from a to b
OnSegment(p, a, b) ==
    LET ux == QSub(p[1], a[1])
        uy == QSub(p[2], a[2])
        wx == QSub(b[1], a[1])
        wy == QSub(b[2], a[2])
        cross == QSub(QMul(ux, wy), QMul(uy, wx))
        dot == QAdd(QMul(ux, wx), QMul(uy, wy))
        len2 == QAdd(QMul(wx, wx), QMul(wy, wy))
    IN  /\ QIsZero(cross)
        /\ QLeq(QInt(0), dot)
        /\ QLeq(dot, len2)

\* C7: a non-cyclic curve through two knots is one segment whose two control
\* points lie on the straight segment between the knots, and the solver's
\* forward sweep runs no iteration.
C7_TwoKnotLine ==
    (BuilderDone /\ ~cyclic /\ Len(points) = 2)
        => /\ sweeps = 0
           /\ Len(path) = 1
           /\ Len(handles) = 1
           /\ OnSegment(handles[1].c1, handles[1].start, handles[1].end)
           /\ OnSegment(handles[1].c2, handles[1].start, handles[1].end)
           /\ OnSegment(path[1].c1, origin, path[1].end)
           /\ OnSegment(path[1].c2, origin, path[1].end)

C7_Witness ==
    /\ BuilderDone /\ run = 1 /\ ~cyclic
    /\ points = <<<<0, 0>>, <<1, 0>>>>
    /\ handles[1].c1 = <<<<1, 9, 1>>, QInt(0)>>
    /\ handles[1].c2 = <<<<5, 9, 1>>, QInt(0)>>

\* C8: in cyclic mode the control points computed for the knots rotated by
\* 90 degrees are the 90-degree rotations of the control points computed for
\* the original knots, segment by segment.
C8_RotationEquivariance ==
    (BuilderDone /\ run = 2 /\ cyclic)
        => /\ Len(Px) = Len(prevP)
           /\ Len(Qx) = Len(prevQ)
           /\ \A k \in 1..Len(Px) :
                /\ <<Px[k], Py[k]>> = QRot90(prevP[k])
                /\ <<Qx[k], Qy[k]>> = QRot90(prevQ[k])

C8_Witness ==
    /\ BuilderDone /\ run = 2 /\ cyclic
    /\ points = <<<<0, 0>>, <<0, 1>>, <<-1, 1>>, <<-1, 0>>>>
    /\ Len(prevP) = 4
    /\ prevP[1] # prevP[2]

\* the forward-eliminated z at row ii, undone: z[ii] + z[ii-1]/bb[ii-1]
ZRawAt(ii) == QAdd(At(z, ii), QDiv(At(z, ii - 1), At(bb, ii - 1)))

\* C9 as stated: z is eliminated from a right-hand side that is 1 at row 0
\* and 0 at every other row, the last included.
C9_Original ==
    (pc = "divide" /\ Len(rx) >= 2)
        => /\ At(z, 0) = QInt(1)
           /\ \A ii \in 1..(Len(rx) - 1) : ZRawAt(ii) = QInt(0)

\* C9 as amended: z is eliminated from a right-hand side that is 1 at row 0
\* and at the last row n-1, and 0 at the rows between.
C9_Amended ==
    (pc = "divide" /\ Len(rx) >= 2)
        => /\ At(z, 0) = QInt(1)
           /\ \A ii \in 1..(Len(rx) - 2) : ZRawAt(ii) = QInt(0)
           /\ ZRawAt(Len(rx) - 1) = QInt(1)

C9_Witness ==
    /\ pc = "divide" /\ Len(rx) = 3 /\ cyclic
    /\ At(z, 1) = <<-1, 3, 0>>
    /\ At(z, 2) = <<12, 11, 0>>

\* C10: no division in solve meets a zero divisor: every pivot stored is
\* positive, the pivots of a second run on other knots with the same n and
\* mode are those of the first, and the cyclic denominator d is non-zero.
C10_NoZeroDivisor ==
    /\ err # "ZeroDivisionError"
    /\ \A k \in 1..Len(bb) : bb[k] # UNSET => QPos(bb[k])
    /\ (SolveReturned /\ cyclic) => ~QIsZero(d)
    /\ (SolveReturned /\ run = 2) => bb = prevBB

C10_Witness ==
    /\ BuilderDone /\ run = 2 /\ cyclic /\ Len(bb) = 3
    /\ points[1] # points[2]
    /\ bb = <<QInt(3), <<11, 3, 0>>, <<30, 11, 0>>>>
    /\ d = <<9, 5, 0>>

=============================================================================
